---- MODULE Spec2Model ----
(***************************************************************************)
(* The local attachment store of HiredPath (idb.js): one IndexedDB object  *)
(* store "files", keyed by "key", with the indexes byJob (on jobKey) and   *)
(* byUser (on userId), and the seven exported operations on it.            *)
(*                                                                         *)
(* Strings are TLA+ strings and keys are built by concatenation, as the    *)
(* template literals of makeKey / makeJobKey build them.  The environment  *)
(* supplies the arguments, the reading of the clock and the engine's       *)
(* failures.                                                               *)
(*                                                                         *)
(* Spec: a single caller awaits each call before it makes the next one, so *)
(* every exported function is one action.                                  *)
(* SpecAsync: calls overlap.  A write call is in flight from its start to  *)
(* the event that settles its promise, and the engine commits, fails or    *)
(* aborts its transaction in between.                                      *)
(* SpecApp: the handlers of app.js in local mode, over the same store:     *)
(* profiles, the job lists in localStorage, the edit modal, and the        *)
(* handlers suspended on an attachment-store call.                         *)
(* SpecCloud: the request handler of api/jobs.js and its in-memory STORE.  *)
(***************************************************************************)
EXTENDS Integers, Sequences, FiniteSets, Bags, TLC

VARIABLES
    db,        \* the records of object store "files"
    upgraded,  \* TRUE once onupgradeneeded has created the store and indexes
    now,       \* the value Date.now() returns
    ret,       \* how the last call settled and what it settled with
    replaced,  \* history: the records the last call's put wrote over
    inputs,    \* the arguments the caller draws from in this behaviour
    calls,     \* the write calls in flight (a bag), each with its position
    app,       \* app.js: profiles, job lists, the modal, suspended handlers
    cloud      \* api/jobs.js: the object STORE and the response last sent

vars == <<db, upgraded, now, ret, replaced, inputs, calls, app, cloud>>

(* ------------------------------ bounds -------------------------------- *)

\* The store never holds more records than this.
MaxRecords == 2
\* Date.now() stays within 0..MaxClock.
MaxClock == 1
\* At most this many write calls are in flight at once.
MaxCalls == 2
\* createProfile runs at most MaxProfiles times, openAdd at most MaxJobs.
MaxProfiles == 1
MaxJobs == 1

(* ----------------------------- constants ------------------------------ *)

\* idb.js line 2: resume | cover | portfolio
DocTypes == {"resume", "cover", "portfolio"}

OctetStream == "application/octet-stream"

\* File objects: (name, type, content).  F2 is a zero-byte file whose type
\* the browser could not tell (file.type is "").
F1 == [name |-> "r.pdf", type |-> "application/pdf", bytes |-> <<1, 2, 3>>]
F2 == [name |-> "c.txt", type |-> "", bytes |-> <<>>]
Files == {F1, F2}

\* The arguments of one behaviour: the (profile id, application id) pairs,
\* the document types and the files the caller passes.  Plain ids with two
\* files to replace one by the other; ids that contain the separator; empty
\* ids and a type outside the enumeration; a type that contains the
\* separator.
Replacing ==
    [apps |-> {<<"u", "j">>, <<"u", "k">>},
     types |-> {"resume", "cover"}, files |-> Files]
SeparatorIds ==
    [apps |-> {<<"u", "j|k">>, <<"u|j", "k">>},
     types |-> {"resume", "cover"}, files |-> Files]
MalformedArgs ==
    [apps |-> {<<"", "k">>, <<"u", "">>, <<"u", "k">>},
     types |-> {"resume", "invoice"}, files |-> {F1}]
SeparatorTypes ==
    [apps |-> {<<"u", "j">>, <<"u", "j|k">>},
     types |-> {"resume", "portfolio", "k|resume"}, files |-> {F1}]
Universes == {Replacing, SeparatorIds, MalformedArgs, SeparatorTypes}
\* The workloads of SpecAsync, each with the write operations its callers
\* overlap: two files into one slot, a profile's cascade over two slots, a
\* job's cascade over two slots.
OverlappingWrites ==
    [apps |-> {<<"u", "j">>}, types |-> {"resume"}, files |-> Files,
     ops |-> {"putFile", "deleteFile"}]
OverlappingUserCascade ==
    [apps |-> {<<"u", "j">>}, types |-> {"resume", "cover"}, files |-> {F1},
     ops |-> {"putFile", "deleteFile", "deleteFilesForUser"}]
OverlappingJobCascade ==
    [apps |-> {<<"u", "j">>}, types |-> {"resume", "cover"}, files |-> {F1},
     ops |-> {"putFile", "deleteFilesForJob"}]
Workloads ==
    {OverlappingWrites, OverlappingUserCascade, OverlappingJobCascade}

\* What the engine does to a call: nothing, fail the open request, fail the
\* transaction or request.
Failures == {"none", "open", "tx"}

(* ------------------------------- keys --------------------------------- *)

makeKey(userId, jobId, type) == userId \o "|" \o jobId \o "|" \o type

makeJobKey(userId, jobId) == userId \o "|" \o jobId

(* ------------------------------- app.js -------------------------------- *)

\* The ids createProfile and uid() hand out, in order: each is fresh.
ProfileIds == <<"u_1", "u_2">>
JobIds == <<"a1", "a2">>
\* editingId = null.
NoJob == ""
\* What the uploads of SpecApp draw from.
Uploads == [apps |-> {}, types |-> {"resume"}, files |-> {F1}]

\* localStore.load / save and localStorage.removeItem on the job lists,
\* a function from the userIds that have a stored list.
Load(jobs, userId) == IF userId \in DOMAIN jobs THEN jobs[userId] ELSE {}
Save(jobs, userId, items) ==
    [u \in DOMAIN jobs \cup {userId} |->
        IF u = userId THEN items ELSE jobs[u]]
RemoveItem(jobs, userId) == [u \in DOMAIN jobs \ {userId} |-> jobs[u]]

\* The page after main(): loadUsers has stored the Default profile.
AppInit ==
    [users |-> {"default"}, current |-> "default", jobs |-> << >>,
     editingId |-> NoJob, profiles |-> 0, uids |-> 0,
     deleting |-> {}, removing |-> {}]

(* ------------------------- the object store --------------------------- *)

\* A put that adds the record and leaves the one under the same key.
StorePutKeepsOld(store, rec) == store \cup {rec}

\* IDBObjectStore.add in place of put: the record already stored stays.
StorePutFirstWins(store, rec) ==
    IF \E r \in store : r.key = rec.key THEN store ELSE store \cup {rec}
\* IDBObjectStore.put on a store with keyPath "key": the record replaces
\* the one stored under the same key, if any.
StorePut(store, rec) == {r \in store : r.key # rec.key} \cup {rec}

\* IDBObjectStore.delete(key), for each key of keys
StoreDelete(store, keys) == {r \in store : r.key \notin keys}

\* IDBObjectStore.get(key): the records under the key (none or one).
StoreGet(store, key) == {r \in store : r.key = key}

\* IDBIndex.getAll on byJob and on byUser
ByJob(store, jobKey) == {r \in store : r.jobKey = jobKey}
ByUser(store, userId) == {r \in store : r.userId = userId}

\* The record putFile builds.
MakeRecord(userId, jobId, type, file, time) ==
    [key |-> makeKey(userId, jobId, type),
     jobKey |-> makeJobKey(userId, jobId),
     userId |-> userId,
     jobId |-> jobId,
     type |-> type,
     filename |-> file.name,
     mime |-> IF file.type = "" THEN OctetStream ELSE file.type,
     uploadedAt |-> time,
     blob |-> file]

\* What the read operations resolve with, as sets of records: {} is
\* getFile's null and the empty list.
getFileValue(store, userId, jobId, type) ==
    StoreGet(store, makeKey(userId, jobId, type))
listFilesForJobValue(store, userId, jobId) ==
    ByJob(store, makeJobKey(userId, jobId))
listFilesForUserValue(store, userId) == ByUser(store, userId)

\* How a call settled.  value is the set of records it resolved with: {rec}
\* for a record, the records of a list, {} for null, true, undefined and the
\* empty list, and for every rejection.
Settled(op, status, value) == [op |-> op, status |-> status, value |-> value]

TripleOf(r) == <<r.userId, r.jobId, r.type>>

(* ----------------------------- api/jobs.js ----------------------------- *)

\* A JavaScript value: its kind t and, for an array, its elements v.
Value(t, v) == [t |-> t, v |-> v]
Undefined == Value("undefined", << >>)
Null == Value("null", << >>)
ObjectPrototype == Value("object", <<"Object.prototype">>)

\* The function a constructor property names.
Function(name) == Value("function", <<name>>)

\* req.query.userId and body.userId when absent or empty: !userId is true.
NoUser == ""

\* The user ids of the requests; two of them name properties every object
\* literal inherits.
UserIds == {"u1", "constructor", "__proto__"}

\* The property names assignment stores as own properties.
OwnNames == UserIds \ {"__proto__"}

\* The values a request carries as items: arrays, a string, nothing.
ItemValues ==
    {Value("array", << >>), Value("array", <<"a1">>),
     Value("string", <<"a1">>), Undefined}

\* The methods of the requests.
Methods == {"GET", "POST", "DELETE"}

\* req.body: a string (text) or a value the platform has parsed already;
\* json is what the text encodes: an object with the fields userId and
\* items, null, or nothing JSON.parse accepts.
Bodies ==
    {b \in [text : BOOLEAN, json : {"object", "null", "garbage"},
            userId : UserIds \cup {NoUser}, items : ItemValues] :
        /\ b.json = "garbage" => b.text
        /\ b.json # "object" => b.userId = NoUser /\ b.items = Undefined}

\* The requests: method, req.query.userId and req.body.
Requests ==
    [method : Methods, userId : UserIds \cup {NoUser}, body : Bodies]

\* let STORE = {}: an object literal, with no own property and the
\* prototype Object.prototype.  posted is history: what each user id was
\* last posted.
CloudInit ==
    [STORE |-> [own |-> [k \in OwnNames |-> Undefined],
                proto |-> ObjectPrototype],
     status |-> 0,
     json |-> Undefined,
     posted |-> [k \in UserIds |-> Undefined]]

\* STORE[k] read: an own property, else the property the prototype chain
\* supplies; __proto__ reads the prototype itself.
Get(STORE, k) ==
    IF k = "__proto__" THEN STORE.proto
    ELSE IF STORE.own[k] # Undefined THEN STORE.own[k]
    ELSE IF k = "constructor"
         THEN Function(IF STORE.proto.t = "array" THEN "Array" ELSE "Object")
    ELSE Undefined

\* STORE[k] = v for an array v: __proto__ sets the prototype, any other
\* name an own property.
Set(STORE, k, v) ==
    IF k = "__proto__" THEN [STORE EXCEPT !.proto = v]
    ELSE [STORE EXCEPT !.own[k] = v]

\* x || y
Or(x, y) == IF x \in {Undefined, Null} THEN y ELSE x

\* JSON.parse(req.body) throws.
Throws(body) == body.text /\ body.json = "garbage"

\* const { userId, items } = body || {}
Destructured(body) ==
    IF body.json = "object" THEN [userId |-> body.userId, items |-> body.items]
    ELSE [userId |-> NoUser, items |-> Undefined]

(* ------------------------------- Init --------------------------------- *)

Init ==
    /\ db = {}
    /\ upgraded = FALSE
    /\ now = 0
    /\ ret = Settled("none", "none", {})
    /\ replaced = {}
    /\ inputs \in Universes
    /\ calls = EmptyBag
    /\ app = AppInit
    /\ cloud = CloudInit

(* ------------------------------ actions ------------------------------- *)

\* Date.now() advances.
Tick ==
    /\ now < MaxClock
    /\ now' = now + 1
    /\ UNCHANGED <<db, upgraded, ret, replaced, inputs, calls, app, cloud>>

\* An open that never leaves the database at DB_VERSION.
openDBForgets(fail) == FALSE
\* openDB: the first successful open runs onupgradeneeded.
openDB(fail) == IF fail = "open" THEN upgraded ELSE TRUE

putFile(userId, jobId, type, file, fail) ==
    LET rec == MakeRecord(userId, jobId, type, file, now)
    IN  /\ Cardinality(StorePut(db, rec)) <= MaxRecords
        /\ upgraded' = openDB(fail)
        /\ IF fail = "none"
           THEN /\ db' = StorePut(db, rec)
                /\ ret' = Settled("putFile", "resolved", {rec})
                /\ replaced' = StoreGet(db, rec.key)
           ELSE /\ ret' = Settled("putFile", "rejected", {})
                /\ replaced' = {}
                /\ UNCHANGED db
        /\ UNCHANGED <<now, inputs>>

\* A get that removes the record it returns.
getFileTakes(userId, jobId, type, fail) ==
    /\ upgraded' = openDB(fail)
    /\ ret' = IF fail = "none"
              THEN Settled("getFile", "resolved",
                           getFileValue(db, userId, jobId, type))
              ELSE Settled("getFile", "rejected", {})
    /\ replaced' = {}
    /\ db' = StoreDelete(db, {makeKey(userId, jobId, type)})
    /\ UNCHANGED <<now, inputs>>

getFile(userId, jobId, type, fail) ==
    /\ upgraded' = openDB(fail)
    /\ ret' = IF fail = "none"
              THEN Settled("getFile", "resolved",
                           getFileValue(db, userId, jobId, type))
              ELSE Settled("getFile", "rejected", {})
    /\ replaced' = {}
    /\ UNCHANGED <<db, now, inputs>>

deleteFile(userId, jobId, type, fail) ==
    /\ upgraded' = openDB(fail)
    /\ IF fail = "none"
       THEN /\ db' = StoreDelete(db, {makeKey(userId, jobId, type)})
            /\ ret' = Settled("deleteFile", "resolved", {})
       ELSE /\ ret' = Settled("deleteFile", "rejected", {})
            /\ UNCHANGED db
    /\ replaced' = {}
    /\ UNCHANGED <<now, inputs>>

listFilesForJob(userId, jobId, fail) ==
    /\ upgraded' = openDB(fail)
    /\ ret' = IF fail = "none"
              THEN Settled("listFilesForJob", "resolved",
                           listFilesForJobValue(db, userId, jobId))
              ELSE Settled("listFilesForJob", "rejected", {})
    /\ replaced' = {}
    /\ UNCHANGED <<db, now, inputs>>

listFilesForUser(userId, fail) ==
    /\ upgraded' = openDB(fail)
    /\ ret' = IF fail = "none"
              THEN Settled("listFilesForUser", "resolved",
                           listFilesForUserValue(db, userId))
              ELSE Settled("listFilesForUser", "rejected", {})
    /\ replaced' = {}
    /\ UNCHANGED <<db, now, inputs>>

\* deleteFilesForJob: list, then one deleteFile per listed record, each in
\* its own transaction.  failed is the set of listed records whose deleteFile
\* the engine fails; the others commit.
deleteFilesForJob(userId, jobId, fail, failed) ==
    LET files == listFilesForJobValue(db, userId, jobId)
        done  == {f.type : f \in files \ failed}
    IN  /\ upgraded' = openDB(fail)
        /\ IF fail = "none"
           THEN /\ failed \subseteq files
                /\ db' = StoreDelete(db, {makeKey(userId, jobId, t) : t \in done})
                /\ ret' = Settled("deleteFilesForJob",
                                  IF failed = {} THEN "resolved" ELSE "rejected", {})
           ELSE /\ failed = {}
                /\ ret' = Settled("deleteFilesForJob", "rejected", {})
                /\ UNCHANGED db
        /\ replaced' = {}
        /\ UNCHANGED <<now, inputs>>

\* deleteFilesForUser: list, then delete every listed key in one transaction.
deleteFilesForUser(userId, fail) ==
    LET all == listFilesForUserValue(db, userId)
    IN  /\ upgraded' = openDB(fail)
        /\ IF fail = "none"
           THEN /\ db' = StoreDelete(db, {rec.key : rec \in all})
                /\ ret' = Settled("deleteFilesForUser", "resolved", {})
           ELSE /\ ret' = Settled("deleteFilesForUser", "rejected", {})
                /\ UNCHANGED db
        /\ replaced' = {}
        /\ UNCHANGED <<now, inputs>>

\* The single caller of Spec has no call in flight between its calls.
Awaited == UNCHANGED <<calls, app, cloud>>

Next ==
    \/ Tick
    \/ \E a \in inputs.apps, t \in inputs.types, f \in inputs.files,
          fail \in Failures : putFile(a[1], a[2], t, f, fail) /\ Awaited
    \/ \E a \in inputs.apps, t \in inputs.types, fail \in Failures :
          getFile(a[1], a[2], t, fail) /\ Awaited
    \/ \E a \in inputs.apps, t \in inputs.types, fail \in Failures :
          deleteFile(a[1], a[2], t, fail) /\ Awaited
    \/ \E a \in inputs.apps, fail \in Failures :
          listFilesForJob(a[1], a[2], fail) /\ Awaited
    \/ \E a \in inputs.apps, fail \in Failures :
          listFilesForUser(a[1], fail) /\ Awaited
    \/ \E a \in inputs.apps, fail \in Failures :
          \E failed \in SUBSET listFilesForJobValue(db, a[1], a[2]) :
             deleteFilesForJob(a[1], a[2], fail, failed) /\ Awaited
    \/ \E a \in inputs.apps, fail \in Failures :
          deleteFilesForUser(a[1], fail) /\ Awaited

Spec == Init /\ [][Next]_vars

(* --------------------------- overlapping calls ------------------------- *)

\* A write call in flight.  args are the call's arguments, keys the keys its
\* transaction writes, value what its promise resolves with.  pc is "list"
\* (a cascade has not enumerated yet), "tx" (transaction open), "committed"
\* (complete event not yet dispatched), "aborted" (the transaction ended with
\* an abort event only) or "all" (deleteFilesForJob awaits Promise.all).
\* superseded is history: a later write touched what this call wrote.
\* fresh is history: the keys whose stored record was put after this cascade
\* enumerated.
NewCall(op, args, pc, keys, value) ==
    [op |-> op, args |-> args, pc |-> pc, keys |-> keys, value |-> value,
     pending |-> {}, settled |-> FALSE, superseded |-> FALSE, fresh |-> {}]

InFlight == BagToSet(calls)
One(c) == SetToBag({c})

\* A cascade that has enumerated and not yet returned.
Enumerated(d) ==
    \/ d.op = "deleteFilesForJob" /\ d.pc = "all"
    \/ d.op = "deleteFilesForUser" /\ d.pc \in {"tx", "committed"}

\* The records of put that are records of the cascade's profile or job.
Targets(d, put) ==
    {rec \in put :
        /\ rec.userId = d.args[1]
        /\ d.op = "deleteFilesForJob" => rec.jobId = d.args[2]}

\* The history kept on the other calls when a transaction commits: written
\* are the keys it wrote, put the record it put (none for a delete).
Later(d, written, put) ==
    [d EXCEPT
       !.superseded =
          \/ @
          \/ d.pc = "committed" /\ d.keys \cap written # {}
          \/ /\ d.op = "deleteFilesForJob" /\ d.pc = "all"
             /\ makeJobKey(d.args[1], d.args[2]) \in {rec.jobKey : rec \in put},
       !.fresh =
          IF ~Enumerated(d) THEN @
          ELSE IF put = {} THEN @ \ written
          ELSE @ \cup {rec.key : rec \in Targets(d, put)}]

Advance(c, next, written, put) ==
    BagOfAll(LAMBDA d : Later(d, written, put), calls (-) One(c))
        (+) One(next)

\* store.clear() in place of the deletes of the records enumerated.
deleteAllClears(store, keys) == {}

\* tx.oncomplete is the only handler that resolves the promise.
ResolvesBeforeCommit(c) == c.pc \in {"tx", "committed"}
Resolves(c) == c.pc = "committed"

\* deleteFilesForUser issues every store.delete in one transaction.
deleteAllStopsEarly(store, keys) ==
    IF keys = {} THEN store
    ELSE StoreDelete(store, {CHOOSE k \in keys : TRUE})
deleteAll(store, keys) == StoreDelete(store, keys)

\* Promise.all rejects its caller at the first rejected deleteFile.
PromiseAllSwallows(c) == FALSE
PromiseAllRejects(c) == ~c.settled

\* putFile up to the opening of its transaction.
putFileStart(userId, jobId, type, file, fail) ==
    LET rec == MakeRecord(userId, jobId, type, file, now)
    IN  /\ BagCardinality(calls) < MaxCalls
        /\ "putFile" \in inputs.ops
        /\ upgraded' = openDB(fail)
        /\ IF fail = "none"
           THEN /\ calls' = calls (+) One(NewCall("putFile",
                               <<userId, jobId, type>>, "tx", {rec.key}, {rec}))
                /\ UNCHANGED ret
           ELSE /\ ret' = Settled("putFile", "rejected", {})
                /\ UNCHANGED <<calls, cloud>>
        /\ UNCHANGED <<db, now, replaced, inputs, app, cloud>>

\* deleteFile up to the opening of its transaction.
deleteFileStart(userId, jobId, type, fail) ==
    /\ BagCardinality(calls) < MaxCalls
    /\ "deleteFile" \in inputs.ops
    /\ upgraded' = openDB(fail)
    /\ IF fail = "none"
       THEN /\ calls' = calls (+) One(NewCall("deleteFile",
                           <<userId, jobId, type>>, "tx",
                           {makeKey(userId, jobId, type)}, {}))
            /\ UNCHANGED ret
       ELSE /\ ret' = Settled("deleteFile", "rejected", {})
            /\ UNCHANGED <<calls, cloud>>
    /\ UNCHANGED <<db, now, replaced, inputs, app, cloud>>

\* deleteFilesForUser up to its await of listFilesForUser.
deleteFilesForUserStart(userId, fail) ==
    /\ BagCardinality(calls) < MaxCalls
    /\ "deleteFilesForUser" \in inputs.ops
    /\ upgraded' = openDB(fail)
    /\ IF fail = "none"
       THEN /\ calls' = calls (+) One(NewCall("deleteFilesForUser",
                           <<userId>>, "list", {}, {}))
            /\ UNCHANGED ret
       ELSE /\ ret' = Settled("deleteFilesForUser", "rejected", {})
            /\ UNCHANGED <<calls, cloud>>
    /\ UNCHANGED <<db, now, replaced, inputs, app, cloud>>

\* deleteFilesForJob up to its await of listFilesForJob.
deleteFilesForJobStart(userId, jobId) ==
    /\ BagCardinality(calls) < MaxCalls
    /\ "deleteFilesForJob" \in inputs.ops
    /\ calls' = calls (+) One(NewCall("deleteFilesForJob",
                       <<userId, jobId>>, "list", {}, {}))
    /\ UNCHANGED <<db, upgraded, now, ret, replaced, inputs, app, cloud>>

\* The cascade's listing settles: the transaction opens over the records
\* listed (deleteFilesForUser) or one deleteFile starts per record listed
\* (deleteFilesForJob); a failed listing rejects the cascade.
enumerate(c, fail) ==
    /\ c.pc = "list"
    /\ upgraded' = openDB(fail)
    /\ IF fail # "none"
       THEN /\ calls' = calls (-) One(c)
            /\ ret' = Settled(c.op, "rejected", {})
       ELSE /\ UNCHANGED ret
            /\ IF c.op = "deleteFilesForUser"
               THEN LET all == listFilesForUserValue(db, c.args[1])
                    IN  calls' = (calls (-) One(c)) (+) One([c EXCEPT
                            !.pc = "tx", !.keys = {rec.key : rec \in all}])
               ELSE LET files == listFilesForJobValue(db, c.args[1], c.args[2])
                        keys == {makeKey(c.args[1], c.args[2], f.type) :
                                     f \in files}
                    IN  calls' = (calls (-) One(c)) (+) One([c EXCEPT
                            !.pc = "all", !.keys = keys, !.pending = keys])
    /\ UNCHANGED <<db, now, replaced, inputs, app, cloud>>

\* The engine commits the transaction of a putFile, a deleteFile or a
\* deleteFilesForUser.
txCommit(c) ==
    /\ c.pc = "tx"
    /\ db' = CASE c.op = "putFile" ->
                    StorePut(db, CHOOSE rec \in c.value : TRUE)
               [] c.op = "deleteFile" -> StoreDelete(db, c.keys)
               [] c.op = "deleteFilesForUser" -> deleteAll(db, c.keys)
    /\ calls' = Advance(c, [c EXCEPT !.pc = "committed"], c.keys, c.value)
    /\ UNCHANGED <<upgraded, now, ret, replaced, inputs, app, cloud>>

\* tx.oncomplete: resolve(rec) / resolve(true).
txComplete(c) ==
    /\ c.op # "deleteFilesForJob"
    /\ Resolves(c)
    /\ calls' = calls (-) One(c)
    /\ ret' = Settled(c.op, "resolved", c.value)
    /\ UNCHANGED <<db, upgraded, now, replaced, inputs, app, cloud>>

\* tx.onerror: a request failed, the transaction wrote nothing.
txError(c) ==
    /\ c.pc = "tx"
    /\ calls' = calls (-) One(c)
    /\ ret' = Settled(c.op, "rejected", {})
    /\ UNCHANGED <<db, upgraded, now, replaced, inputs, app, cloud>>

\* The commit fails (quota, disk): the transaction fires abort only, and no
\* handler is registered for it.
txAbort(c) ==
    /\ c.pc = "tx"
    /\ calls' = (calls (-) One(c)) (+) One([c EXCEPT !.pc = "aborted"])
    /\ UNCHANGED <<db, upgraded, now, ret, replaced, inputs, app, cloud>>

\* One deleteFile of a deleteFilesForJob commits and resolves.
subDeleteDone(c, k) ==
    /\ c.pc = "all" /\ k \in c.pending
    /\ db' = StoreDelete(db, {k})
    /\ calls' = Advance(c, [c EXCEPT !.pending = @ \ {k}], {k}, {})
    /\ UNCHANGED <<upgraded, now, ret, replaced, inputs, app, cloud>>

\* One deleteFile of a deleteFilesForJob rejects: Promise.all rejects the
\* caller unless it already has, and the other deletions go on.
subDeleteError(c, k) ==
    /\ c.pc = "all" /\ k \in c.pending
    /\ calls' = (calls (-) One(c)) (+)
                    One([c EXCEPT !.pending = @ \ {k}, !.settled = TRUE])
    /\ IF PromiseAllRejects(c)
       THEN ret' = Settled(c.op, "rejected", {})
       ELSE UNCHANGED ret
    /\ UNCHANGED <<db, upgraded, now, replaced, inputs, app, cloud>>

\* Every deleteFile of a deleteFilesForJob has settled: Promise.all resolves
\* when all of them resolved and the caller has not been rejected.  (A
\* deleteFile whose transaction aborts never settles: it stays pending.)
allSettled(c) ==
    /\ c.pc = "all" /\ c.pending = {}
    /\ calls' = calls (-) One(c)
    /\ IF c.settled
       THEN UNCHANGED ret
       ELSE ret' = Settled(c.op, "resolved", {})
    /\ UNCHANGED <<db, upgraded, now, replaced, inputs, app, cloud>>

InitAsync ==
    /\ db = {}
    /\ upgraded = FALSE
    /\ now = 0
    /\ ret = Settled("none", "none", {})
    /\ replaced = {}
    /\ inputs \in Workloads
    /\ calls = EmptyBag
    /\ app = AppInit
    /\ cloud = CloudInit

\* Reads run in one step between the steps of the writes in flight.
NextAsync ==
    \/ \E a \in inputs.apps, t \in inputs.types, f \in inputs.files,
          fail \in {"none", "open"} : putFileStart(a[1], a[2], t, f, fail)
    \/ \E a \in inputs.apps, t \in inputs.types, fail \in {"none", "open"} :
          deleteFileStart(a[1], a[2], t, fail)
    \/ \E a \in inputs.apps, fail \in {"none", "open"} :
          deleteFilesForUserStart(a[1], fail)
    \/ \E a \in inputs.apps : deleteFilesForJobStart(a[1], a[2])
    \/ \E c \in InFlight, fail \in Failures : enumerate(c, fail)
    \/ \E c \in InFlight : txCommit(c)
    \/ \E c \in InFlight : txComplete(c)
    \/ \E c \in InFlight : txError(c)
    \/ \E c \in InFlight : txAbort(c)
    \/ \E c \in InFlight : \E k \in c.pending : subDeleteDone(c, k)
    \/ \E c \in InFlight : \E k \in c.pending : subDeleteError(c, k)
    \/ \E c \in InFlight : allSettled(c)
    \/ \E a \in inputs.apps, t \in inputs.types, fail \in Failures :
          getFile(a[1], a[2], t, fail) /\ Awaited
    \/ \E a \in inputs.apps, fail \in Failures :
          listFilesForJob(a[1], a[2], fail) /\ Awaited
    \/ \E a \in inputs.apps, fail \in Failures :
          listFilesForUser(a[1], fail) /\ Awaited

SpecAsync == InitAsync /\ [][NextAsync]_vars

(* ------------------------- app.js, local mode -------------------------- *)

\* The handlers of app.js with modeSelect on "local".  A handler runs to its
\* first await of an attachment-store call in one step (loadItems and
\* saveItems settle in microtasks); deleteCurrentProfile and delItem are then
\* suspended, the page stays live, and they resume when the call settles.
\* While the modal is open (editingId set) the rest of the page is inert.

createProfile ==
    /\ app.editingId = NoJob
    /\ app.profiles < MaxProfiles
    /\ LET id == ProfileIds[app.profiles + 1]
       IN  app' = [app EXCEPT !.users = @ \cup {id}, !.current = id,
                              !.profiles = @ + 1]
    /\ UNCHANGED <<db, upgraded, now, ret, replaced, inputs, calls, cloud>>

\* profileSelect change.
selectProfile(userId) ==
    /\ app.editingId = NoJob
    /\ userId \in app.users /\ userId # app.current
    /\ app' = [app EXCEPT !.current = userId]
    /\ UNCHANGED <<db, upgraded, now, ret, replaced, inputs, calls, cloud>>

openAdd ==
    /\ app.editingId = NoJob
    /\ app.uids < MaxJobs
    /\ app' = [app EXCEPT !.editingId = JobIds[app.uids + 1], !.uids = @ + 1]
    /\ UNCHANGED <<db, upgraded, now, ret, replaced, inputs, calls, cloud>>

openEdit(id) ==
    /\ app.editingId = NoJob
    /\ id \in Load(app.jobs, app.current)
    /\ app' = [app EXCEPT !.editingId = id]
    /\ UNCHANGED <<db, upgraded, now, ret, replaced, inputs, calls, cloud>>

\* Cancel, or a click on the backdrop.
closeModal ==
    /\ app.editingId # NoJob
    /\ app' = [app EXCEPT !.editingId = NoJob]
    /\ UNCHANGED <<db, upgraded, now, ret, replaced, inputs, calls, cloud>>

\* form submit: upsertFromForm, then closeModal.
submit ==
    /\ app.editingId # NoJob
    /\ app' = [app EXCEPT
                 !.jobs = Save(@, app.current,
                               Load(@, app.current) \cup {app.editingId}),
                 !.editingId = NoJob]
    /\ UNCHANGED <<db, upgraded, now, ret, replaced, inputs, calls, cloud>>

handleUpload(type, file, fail) ==
    /\ app.editingId # NoJob
    /\ putFile(app.current, app.editingId, type, file, fail)
    /\ UNCHANGED <<calls, app, cloud>>

\* delItem up to its await of deleteFilesForJob.
delItem(id) ==
    /\ app.editingId = NoJob
    /\ id \in Load(app.jobs, app.current)
    /\ app' = [app EXCEPT
                 !.jobs = Save(@, app.current, Load(@, app.current) \ {id}),
                 !.removing = @ \cup {<<app.current, id>>}]
    /\ UNCHANGED <<db, upgraded, now, ret, replaced, inputs, calls, cloud>>

\* deleteFilesForJob settles, catch {} drops a rejection, and delItem goes
\* on to render.
delItemResume(r, fail, failed) ==
    /\ r \in app.removing
    /\ deleteFilesForJob(r[1], r[2], fail, failed)
    /\ app' = [app EXCEPT !.removing = @ \ {r}]
    /\ UNCHANGED <<calls, cloud>>

\* A deleteCurrentProfile that lets every profile go.
DeletableAny(userId) == TRUE
\* if (userId === "default") { alert(...); return; }
Deletable(userId) == userId # "default"

\* deleteCurrentProfile up to its await of deleteFilesForUser; ok is the
\* answer to confirm().  It returns at once on the Default profile and when
\* the user declines.
deleteCurrentProfile(ok) ==
    /\ app.editingId = NoJob
    /\ IF Deletable(app.current) /\ ok
       THEN app' = [app EXCEPT
                      !.jobs = RemoveItem(@, app.current),
                      !.deleting = @ \cup {[userId |-> app.current,
                                            users |-> app.users]}]
       ELSE UNCHANGED app
    /\ UNCHANGED <<db, upgraded, now, ret, replaced, inputs, calls, cloud>>

\* deleteFilesForUser settles, a rejection is only logged: the profile
\* leaves the list read before the await and the first profile is selected.
deleteCurrentProfileResume(d, fail) ==
    /\ d \in app.deleting
    /\ deleteFilesForUser(d.userId, fail)
    /\ app' = [app EXCEPT !.users = d.users \ {d.userId},
                          !.current = "default",
                          !.deleting = @ \ {d}]
    /\ UNCHANGED <<calls, cloud>>

InitApp ==
    /\ db = {}
    /\ upgraded = FALSE
    /\ now = 0
    /\ ret = Settled("none", "none", {})
    /\ replaced = {}
    /\ inputs = Uploads
    /\ calls = EmptyBag
    /\ app = AppInit
    /\ cloud = CloudInit

NextApp ==
    \/ createProfile
    \/ \E userId \in app.users : selectProfile(userId)
    \/ openAdd
    \/ \E id \in Load(app.jobs, app.current) : openEdit(id)
    \/ closeModal
    \/ submit
    \/ \E t \in inputs.types, f \in inputs.files, fail \in Failures :
          handleUpload(t, f, fail)
    \/ \E id \in Load(app.jobs, app.current) : delItem(id)
    \/ \E r \in app.removing, fail \in Failures :
          \E failed \in SUBSET listFilesForJobValue(db, r[1], r[2]) :
             delItemResume(r, fail, failed)
    \/ \E ok \in BOOLEAN : deleteCurrentProfile(ok)
    \/ \E d \in app.deleting, fail \in Failures :
          deleteCurrentProfileResume(d, fail)

SpecApp == InitApp /\ [][NextApp]_vars

(* ----------------------------- api/jobs.js ----------------------------- *)

\* res.status(status).json(json)
Respond(status, json) == [cloud EXCEPT !.status = status, !.json = json]

\* The error bodies.
Error(message) == Value("error", <<message>>)

\* export default async function handler(req, res)
handler(req) ==
    /\ cloud' =
         IF req.method = "GET"
         THEN IF req.userId = NoUser
              THEN Respond(400, Error("Missing userId"))
              ELSE Respond(200, Or(Get(cloud.STORE, req.userId),
                                   Value("array", << >>)))
         ELSE IF req.method = "POST"
         THEN IF Throws(req.body)
              THEN Respond(400, Error("Invalid JSON"))
              ELSE LET body == Destructured(req.body)
                   IN  IF body.userId = NoUser
                       THEN Respond(400, Error("Missing userId"))
                       ELSE IF body.items.t # "array"
                       THEN Respond(400, Error("items must be an array"))
                       ELSE [cloud EXCEPT
                               !.STORE = Set(@, body.userId, body.items),
                               !.posted[body.userId] = body.items,
                               !.status = 200,
                               !.json = Value("ok", << >>)]
         ELSE Respond(405, Error("Method not allowed"))
    /\ UNCHANGED <<db, upgraded, now, ret, replaced, inputs, calls, app>>

InitCloud ==
    /\ db = {}
    /\ upgraded = FALSE
    /\ now = 0
    /\ ret = Settled("none", "none", {})
    /\ replaced = {}
    /\ inputs = Uploads
    /\ calls = EmptyBag
    /\ app = AppInit
    /\ cloud = CloudInit

NextCloud == \E req \in Requests : handler(req)

SpecCloud == InitCloud /\ [][NextCloud]_vars

(* ---------------------------- properties ------------------------------ *)

Apps == inputs.apps
Types == inputs.types
Stored(store, userId, jobId, type) ==
    {r \in store : TripleOf(r) = <<userId, jobId, type>>}
MimeOf(file) == IF file.type = "" THEN OctetStream ELSE file.type
Carries(r, file) ==
    r.blob = file /\ r.filename = file.name /\ r.mime = MimeOf(file)

\* A step that writes to the triple: a put or a delete of it, or a cascade
\* over its application or its profile.
WritesTo(userId, jobId, type) ==
    \/ \E f \in inputs.files, fail \in Failures :
          putFile(userId, jobId, type, f, fail)
    \/ \E fail \in Failures : deleteFile(userId, jobId, type, fail)
    \/ \E fail \in Failures :
          \E failed \in SUBSET listFilesForJobValue(db, userId, jobId) :
             deleteFilesForJob(userId, jobId, fail, failed)
    \/ \E fail \in Failures : deleteFilesForUser(userId, fail)

\* C1: once putFile(p,a,t,F) has returned, getFile(p,a,t) returns one record
\* that carries F (blob, filename, mime with the octet-stream default), and
\* goes on doing so over every step that is not a write to (p,a,t).
C1_PutThenGet ==
    [][\A a \in Apps, t \in Types, f \in inputs.files :
          /\ putFile(a[1], a[2], t, f, "none") =>
                \E r \in db' : /\ getFileValue(db', a[1], a[2], t) = {r}
                               /\ Carries(r, f)
          /\ ( /\ \E r \in Stored(db, a[1], a[2], t) : Carries(r, f)
               /\ ~WritesTo(a[1], a[2], t) ) =>
                \E r \in db' : /\ getFileValue(db', a[1], a[2], t) = {r}
                               /\ Carries(r, f)]_vars

\* C2: putFile is an upsert.  No two stored records share a key, and when a
\* putFile has resolved, the store holds exactly one record for its triple,
\* the one it returned (which carries the file just put), and
\* listFilesForJob of its application holds exactly one record of its type.
C2_Upsert ==
    /\ \A r1, r2 \in db : r1.key = r2.key => r1 = r2
    /\ (ret.op = "putFile" /\ ret.status = "resolved") =>
          \A rec \in ret.value :
             /\ Carries(rec, rec.blob)
             /\ Stored(db, rec.userId, rec.jobId, rec.type) = {rec}
             /\ {r \in listFilesForJobValue(db, rec.userId, rec.jobId) :
                    r.type = rec.type} = {rec}
             /\ \A old \in replaced : old # rec => old \notin db

\* C2's case: a putFile of F2 has just replaced the record of F1 for the
\* same triple.
C2_Witness ==
    /\ ret.op = "putFile" /\ ret.status = "resolved"
    /\ \E rec \in ret.value, old \in replaced :
          /\ TripleOf(old) = TripleOf(rec)
          /\ old.blob = F1 /\ rec.blob = F2
          /\ rec \in db

\* C3: when deleteFilesForJob(p,a) has resolved, listFilesForJob(p,a) is
\* empty and getFile(p,a,t) is absent for every document type t.
C3_DeleteJobLeavesNone ==
    [][\A a \in Apps :
          deleteFilesForJob(a[1], a[2], "none", {}) =>
             /\ listFilesForJobValue(db', a[1], a[2]) = {}
             /\ \A t \in DocTypes : getFileValue(db', a[1], a[2], t) = {}]_vars

\* C4: when deleteFilesForUser(p) has resolved, listFilesForUser(p) is empty
\* and listFilesForJob(p,a) is empty for every application a that had
\* records under p.
C4_DeleteUserLeavesNone ==
    [][\A a \in Apps :
          deleteFilesForUser(a[1], "none") =>
             /\ listFilesForUserValue(db', a[1]) = {}
             /\ \A r \in listFilesForUserValue(db, a[1]) :
                   listFilesForJobValue(db', a[1], r.jobId) = {}]_vars

\* C5: every record listFilesForJob(p,a) returns has userId p and jobId a.
C5_ListJobOwnRecords ==
    \A a \in Apps :
       \A r \in listFilesForJobValue(db, a[1], a[2]) :
          r.userId = a[1] /\ r.jobId = a[2]

\* C6: the keys are injective: stored records with the same jobKey have the
\* same (userId, jobId), and a record a put wrote over (it had the key of
\* the record put) was a record of the same triple.
C6_KeysInjective ==
    /\ \A r1, r2 \in db :
          r1.jobKey = r2.jobKey => r1.userId = r2.userId /\ r1.jobId = r2.jobId
    /\ \A rec \in ret.value, old \in replaced :
          old.key = rec.key => TripleOf(old) = TripleOf(rec)

\* C7: putFile with a type outside {resume, cover, portfolio} fails with
\* InvalidKey, without opening the database, and leaves the store as it was.
C7_PutInvalidType ==
    [][\A a \in Apps, t \in Types \ DocTypes, f \in inputs.files,
          fail \in Failures :
          putFile(a[1], a[2], t, f, fail) =>
             /\ ret'.status = "InvalidKey"
             /\ db' = db
             /\ upgraded' = upgraded]_vars

\* A call of any of the seven operations with these ids.
AnyCall(userId, jobId) ==
    \E fail \in Failures :
       \/ \E t \in Types, f \in inputs.files : putFile(userId, jobId, t, f, fail)
       \/ \E t \in Types : getFile(userId, jobId, t, fail)
       \/ \E t \in Types : deleteFile(userId, jobId, t, fail)
       \/ listFilesForJob(userId, jobId, fail)
       \/ listFilesForUser(userId, fail)
       \/ \E failed \in SUBSET listFilesForJobValue(db, userId, jobId) :
             deleteFilesForJob(userId, jobId, fail, failed)
       \/ deleteFilesForUser(userId, fail)

\* C8: every operation called with an empty profile id or an empty
\* application id fails with InvalidKey, without opening the database, and
\* leaves the store as it was.
C8_EmptyIdRejected ==
    [][\A a \in Apps :
          ((a[1] = "" \/ a[2] = "") /\ AnyCall(a[1], a[2])) =>
             /\ ret'.status = "InvalidKey"
             /\ db' = db
             /\ upgraded' = upgraded]_vars

\* C9: deleteFile(p,a,t) on a triple with no stored record resolves and
\* leaves the store as it was.
C9_DeleteAbsentIsNoOp ==
    [][\A a \in Apps, t \in Types :
          ( /\ Stored(db, a[1], a[2], t) = {}
            /\ deleteFile(a[1], a[2], t, "none") ) =>
             /\ ret'.status = "resolved"
             /\ db' = db]_vars

\* C10: getFile(p,a,t) on a triple with no stored record resolves with the
\* absent value.
C10_GetAbsentIsNull ==
    [][\A a \in Apps, t \in Types :
          ( /\ Stored(db, a[1], a[2], t) = {}
            /\ getFile(a[1], a[2], t, "none") ) =>
             /\ ret'.status = "resolved"
             /\ ret'.value = {}]_vars

\* The records of the store under the keys a call writes.
Under(store, c) == {r \in store : r.key \in c.keys}

\* C11: a putFile or deleteFile delivers its result only after its write has
\* committed: at the step that resolves a putFile whose record no later write
\* has touched, getFile and listFilesForJob of the triple return the record
\* returned; at the step that resolves such a deleteFile, they return none.
C11_ResultAfterCommit ==
    [][\A c \in InFlight :
          (txComplete(c) /\ ~c.superseded /\ c.op \in {"putFile", "deleteFile"})
          => /\ getFileValue(db', c.args[1], c.args[2], c.args[3]) = c.value
             /\ {r \in listFilesForJobValue(db', c.args[1], c.args[2]) :
                    r.type = c.args[3]} = c.value
             /\ ret'.status = "resolved" /\ ret'.value = c.value]_vars

\* A putFile has resolved with a record that a later read finds stored.
C11_Witness ==
    /\ ret.op = "putFile" /\ ret.status = "resolved"
    /\ ret.value # {} /\ ret.value \subseteq db
    /\ calls = EmptyBag

\* C12: every started putFile, deleteFile or deleteFilesForUser settles: no
\* call stays in flight once its transaction has ended, an abort at commit
\* time included.
C12_EveryCallSettles ==
    \A c \in InFlight :
       c.op \in {"putFile", "deleteFile", "deleteFilesForUser"}
       => c.pc # "aborted"

\* C13: deleteFilesForUser removes the records it enumerated in one
\* transaction: its commit leaves none of them, every other step of the call
\* leaves all of them as they were, and a failed or aborted transaction
\* removes none.
C13_UserCascadeAtomic ==
    [][\A c \in InFlight :
          c.op = "deleteFilesForUser"
          => /\ txCommit(c) => Under(db', c) = {}
             /\ (txError(c) \/ txAbort(c) \/ txComplete(c))
                => Under(db', c) = Under(db, c)
             /\ txError(c) => ret'.status = "rejected" /\ db' = db]_vars

\* A deleteFilesForUser enumerated two records and its commit removed both.
C13_Witness ==
    \E c \in InFlight :
       /\ c.op = "deleteFilesForUser" /\ c.pc = "committed"
       /\ Cardinality(c.keys) = 2 /\ ~c.superseded
       /\ Under(db, c) = {}

C15_LastWriteWins ==
    /\ \A r1, r2 \in db : r1.key = r2.key => r1 = r2
    /\ \A c \in InFlight :
          (c.op = "putFile" /\ c.pc = "committed" /\ ~c.superseded)
          => Under(db, c) = c.value
    /\ \A c, d \in InFlight :
          ( /\ c # d /\ c.keys = d.keys
            /\ c.op = "putFile" /\ d.op = "putFile"
            /\ c.pc = "committed" /\ d.pc = "committed" )
          => c.superseded \/ d.superseded

\* Two putFile calls for one triple, with different files, have both
\* committed and neither has returned; the store holds the record of the
\* second.
C15_Witness ==
    \E c, d \in InFlight :
       /\ c.op = "putFile" /\ d.op = "putFile" /\ c.keys = d.keys
       /\ c.pc = "committed" /\ d.pc = "committed"
       /\ c.superseded /\ ~d.superseded
       /\ c.value # d.value
       /\ db = d.value

\* C17: the store and its two indexes agree: getFile of a triple returns
\* exactly the records of type t that listFilesForJob returns for the
\* application, every record listFilesForJob returns for (p, a) is returned
\* by listFilesForUser(p), and every record's key and jobKey are makeKey and
\* makeJobKey of its own fields.
C17_IndexesAgree ==
    /\ \A a \in Apps, t \in DocTypes :
          getFileValue(db, a[1], a[2], t)
             = {r \in listFilesForJobValue(db, a[1], a[2]) : r.type = t}
    /\ \A a \in Apps :
          listFilesForJobValue(db, a[1], a[2])
             \subseteq listFilesForUserValue(db, a[1])
    /\ \A r \in db : /\ r.key = makeKey(r.userId, r.jobId, r.type)
                     /\ r.jobKey = makeJobKey(r.userId, r.jobId)

\* C18: getFile, listFilesForJob and listFilesForUser leave the stored
\* records as they are, whether they succeed or fail and whatever ran
\* before: no step that changes the store is a step of one of them.
C18_ReadsChangeNothing ==
    [][db' # db
       => \A a \in Apps, fail \in Failures :
             /\ \A t \in Types : ~getFile(a[1], a[2], t, fail)
             /\ ~listFilesForJob(a[1], a[2], fail)
             /\ ~listFilesForUser(a[1], fail)]_vars

\* A listFilesForUser has returned two records, both still stored.
C18_Witness ==
    /\ ret.op = "listFilesForUser" /\ ret.status = "resolved"
    /\ Cardinality(ret.value) = 2
    /\ ret.value \subseteq db

\* C19: the first openDB that succeeds creates the object store and its
\* indexes, with nothing stored before it; once created the store is never
\* created again, and an operation that only opens and reads (getFile)
\* changes no record and, unless its open fails, leaves the store created.
C19_OpenIdempotent ==
    [][/\ ~upgraded => db = {}
       /\ upgraded => upgraded'
       /\ db' # db
          => \A a \in Apps, t \in Types, fail \in Failures :
                ~getFile(a[1], a[2], t, fail)
       /\ ~upgraded'
          => \A a \in Apps, t \in Types :
                /\ ~getFile(a[1], a[2], t, "none")
                /\ ~getFile(a[1], a[2], t, "tx")]_vars

\* A getFile has opened a database that already held its record.
C19_Witness ==
    /\ upgraded
    /\ ret.op = "getFile" /\ ret.status = "resolved"
    /\ ret.value # {} /\ ret.value \subseteq db

\* C16: once deleteCurrentProfile has completed for a profile, the profile
\* is not in the profile list, no job list is stored for it and no
\* attachment record carries its userId.
C16_ProfileDeletionCascades ==
    [][\A d \in app.deleting, fail \in Failures :
          deleteCurrentProfileResume(d, fail)
          => /\ d.userId \notin app'.users
             /\ d.userId \notin DOMAIN app'.jobs
             /\ listFilesForUserValue(db', d.userId) = {}]_vars

\* C20: once delItem has completed, the job is not in the job list of the
\* profile it was deleted from and no attachment record of that profile and
\* job is stored, whether or not the attachment deletion failed or another
\* profile was selected meanwhile.
C20_JobDeletionCascades ==
    [][\A r \in app.removing, fail \in Failures :
          \A failed \in SUBSET listFilesForJobValue(db, r[1], r[2]) :
             delItemResume(r, fail, failed)
             => /\ r[2] \notin Load(app'.jobs, r[1])
                /\ listFilesForJobValue(db', r[1], r[2]) = {}]_vars

\* C22: a write leaves the records of every other target as they are:
\* deleteFilesForJob(p, a) those of every other (userId, jobId), deleteFile
\* and putFile of (p, a, t) those of every other triple, for all string ids.
C22_WritesTouchOwnRecords ==
    [][\A a \in Apps, fail \in Failures :
          /\ \A failed \in SUBSET listFilesForJobValue(db, a[1], a[2]) :
                deleteFilesForJob(a[1], a[2], fail, failed)
                => \A r \in db : <<r.userId, r.jobId>> # a => r \in db'
          /\ \A t \in Types :
                deleteFile(a[1], a[2], t, fail)
                => \A r \in db : TripleOf(r) # <<a[1], a[2], t>> => r \in db'
          /\ \A t \in Types, f \in inputs.files :
                putFile(a[1], a[2], t, f, fail)
                => \A r \in db :
                      TripleOf(r) # <<a[1], a[2], t>> => r \in db']_vars

\* C23: once deleteFilesForJob has settled it changes the store no more:
\* none of its deleteFile calls commits after the caller has been rejected.
C23_NoWriteAfterSettling ==
    [][\A c \in InFlight :
          c.op = "deleteFilesForJob"
          => \A k \in c.pending : subDeleteDone(c, k) => ~c.settled]_vars

\* A cascade returns successfully.
Returns(c) ==
    \/ c.op = "deleteFilesForJob" /\ allSettled(c) /\ ~c.settled
    \/ c.op = "deleteFilesForUser" /\ txComplete(c)

\* C24: when a cascade returns successfully, every record it enumerated is
\* absent unless it was put again meanwhile, and every record put after the
\* enumeration is present.
C24_TwoPhaseCascade ==
    [][\A c \in InFlight :
          Returns(c)
          => /\ \A k \in c.keys \ c.fresh : StoreGet(db', k) = {}
             /\ \A k \in c.fresh : StoreGet(db', k) # {}]_vars

\* C24, amended: when a cascade returns successfully, every record it
\* enumerated is absent unless it was put again meanwhile, and every record
\* put after the enumeration under a key the cascade did not enumerate is
\* present.
C24_TwoPhaseEnumerated ==
    [][\A c \in InFlight :
          Returns(c)
          => /\ \A k \in c.keys \ c.fresh : StoreGet(db', k) = {}
             /\ \A k \in c.fresh \ c.keys : StoreGet(db', k) # {}]_vars

\* A deleteFilesForUser has removed the record it enumerated and left the
\* record put under another key after its enumeration.
C24_Witness ==
    \E c \in InFlight :
       /\ c.op = "deleteFilesForUser" /\ c.pc = "committed"
       /\ c.keys # {} /\ c.fresh # {} /\ c.keys \cap c.fresh = {}
       /\ {r.key : r \in db} = c.fresh

\* C21: the profile list always contains the Default profile, and a
\* deleteCurrentProfile on the Default profile changes neither the profile
\* list, nor a job list, nor the attachment store.
C21_DefaultStays ==
    [][/\ "default" \in app.users /\ "default" \in app'.users
       /\ \A ok \in BOOLEAN :
             (app.current = "default" /\ deleteCurrentProfile(ok))
             => /\ app'.users = app.users
                /\ app'.jobs = app.jobs
                /\ db' = db]_vars

\* A profile has been created and deleted again, with an attachment stored
\* for the Default profile: the Default profile and its record are left.
C21_Witness ==
    /\ app.profiles > 0 /\ app.deleting = {}
    /\ app.users = {"default"} /\ app.current = "default"
    /\ listFilesForUserValue(db, "default") # {}

\* C25: with the modal closed and no handler suspended, every attachment
\* record belongs to a job of its profile's job list.
C25_NoOrphanAttachments ==
    (app.editingId = NoJob /\ app.removing = {} /\ app.deleting = {})
    => \A r \in db : r.jobId \in Load(app.jobs, r.userId)

\* A POST the handler accepts: its body parses, names a user id and
\* carries an array as items.
Valid(req) ==
    /\ req.method = "POST" /\ ~Throws(req.body)
    /\ Destructured(req.body).userId # NoUser
    /\ Destructured(req.body).items.t = "array"

\* C26: the cloud jobs handler changes STORE only on a valid POST: any
\* other POST answers 400, a method other than GET and POST answers 405, a
\* GET never writes; a valid POST replaces exactly STORE[userId], and a GET
\* for a user id returns the items last posted for it, [] if none were.
C26_StoreChangesOnValidPost ==
    [][\A req \in Requests : handler(req) =>
          /\ ~Valid(req) => cloud'.STORE = cloud.STORE
          /\ req.method = "POST" /\ ~Valid(req) => cloud'.status = 400
          /\ req.method \notin {"GET", "POST"} => cloud'.status = 405
          /\ Valid(req) =>
                \A k \in UserIds :
                   Get(cloud'.STORE, k) =
                      IF k = req.body.userId THEN req.body.items
                      ELSE Get(cloud.STORE, k)
          /\ req.method = "GET" /\ req.userId # NoUser =>
                /\ cloud'.status = 200
                /\ cloud'.json = Or(cloud.posted[req.userId],
                                    Value("array", << >>))]_vars

====
